---- MODULE Spec2Model ----
(***************************************************************************)
(* Model of the autonomous recovery system of                              *)
(* src/docs/next-gen/autonomous-recovery-system.py                         *)
(* (class AutonomousRecoverySystem): incident detection, severity          *)
(* assessment, recovery planning, recovery execution and the device        *)
(* monitoring loop; and of the life of a deployment job in                 *)
(* src/docs/enterprise/global-deployment-automation.py                     *)
(* (GlobalDeploymentOrchestrator.trigger_global_deployment and             *)
(* _execute_global_deployment).                                            *)
(*                                                                         *)
(* Scaling of the non-integer quantities of the source:                    *)
(*   battery_voltage  in tenths of a volt      (3.2 V   -> 32)             *)
(*   uptime_hours     in hundredths of an hour (0.1 h   -> 10)             *)
(*   severity_score   doubled                  (x 1.5   -> x 3 of half)    *)
(***************************************************************************)
EXTENDS Integers, Sequences, FiniteSets, TLC

(***************************************************************************)
(* Bounds of the model.                                                    *)
(***************************************************************************)
\* IncidentReport objects created in one behaviour of the system (the
\* monitoring loop over two devices, and a caller).
MaxIncidents == 2
\* IncidentReport objects created in one behaviour of the monitoring loop
\* running alone over one device.
MaxMonitorIncidents == 4
\* IncidentReport objects created in one behaviour of the monitoring loop
\* when the snapshots of its device cover every severity.
MaxSweepIncidents == 2
\* Deployment jobs triggered in one behaviour, and stages of the pipeline
\* they run.
MaxJobs == 2
MaxStages == 2
\* Replicas a deployment is drawn with, and max_replicas its autoscaler is
\* drawn with.
MaxReplicas == 3
MaxHpaReplicas == 12

(***************************************************************************)
(* Program constants.                                                      *)
(***************************************************************************)
\* IncidentSeverity values (lines 68-74).
LOW == 1
MEDIUM == 2
HIGH == 3
CRITICAL == 4
CATASTROPHIC == 5

\* _detect_symptoms thresholds (lines 270-300), scaled as stated above.
BatteryMin == 32
TemperatureMax == 50
TemperatureMin == -10
MemoryMax == 90
CpuMax == 95
ErrorCountMax == 10
WifiMin == -80
UptimeMin == 10

\* _assess_severity score thresholds (lines 334-340).
CatastrophicScore == 10
CriticalScore == 7
HighScore == 4
MediumScore == 2

\* _scale_resources never raises max_replicas above this (line 713).
HpaReplicasCap == 10

\* Configuration value of the specification (max_attempts, default 3); the
\* source defines no such setting.
max_attempts == 3

\* Configuration value of the specification (fleet_storm_threshold, in
\* percent of the fleet); the source defines no such setting.
fleet_storm_threshold == 30

\* Configuration value of the specification (pattern_confidence_floor,
\* default 0.6, in percent); the source defines no such setting.
pattern_confidence_floor == 60

(***************************************************************************)
(* Device identifiers and what `'critical' in device_id.lower()` /         *)
(* `'production' in device_id.lower()` evaluate to for each (line 330).    *)
(***************************************************************************)
DeviceIds == {"ESP32-CRITICAL-001", "ESP32-LAB-002", "esp32-production-7"}

DeviceIdContains(device_id, word) ==
    \/ device_id = "ESP32-CRITICAL-001" /\ word = "critical"
    \/ device_id = "esp32-production-7" /\ word = "production"

(***************************************************************************)
(* Telemetry snapshots (device_data).  A metric is a number, absent (the   *)
(* key is missing: dict.get returns its default) or NaN.                   *)
(***************************************************************************)
Num(n) == [kind |-> "num", val |-> n]
Absent == [kind |-> "absent", val |-> 0]
NaN == [kind |-> "nan", val |-> 0]

\* dict.get(key, default)
Get(v, default) == IF v.kind = "absent" THEN Num(default) ELSE v

\* Python comparisons with a NaN operand are False.
Less(a, n) == a.kind = "num" /\ a.val < n
Greater(a, n) == a.kind = "num" /\ a.val > n

\* `value is None or np.isnan(value)` (line 311); .get(key) of a missing key
\* is None.
IsInvalidReading(v) == v.kind = "absent" \/ v.kind = "nan"

(***************************************************************************)
(* _detect_symptoms (lines 264-314).  A symptom is identified by the       *)
(* constant part of its message; the list is in the order of the checks.   *)
(***************************************************************************)
SymOpt(cond, symptom) == IF cond THEN <<symptom>> ELSE <<>>

DetectSymptoms(device_data) ==
    SymOpt(Less(Get(device_data.battery_voltage, 0), BatteryMin),
           "Low battery voltage")
    \o SymOpt(\/ Greater(Get(device_data.temperature, 0), TemperatureMax)
              \/ Less(Get(device_data.temperature, 0), TemperatureMin),
              "Extreme temperature")
    \o SymOpt(Greater(Get(device_data.memory_usage, 0), MemoryMax),
              "High memory usage")
    \o SymOpt(Greater(Get(device_data.cpu_usage, 0), CpuMax),
              "High CPU usage")
    \o SymOpt(Greater(Get(device_data.error_count, 0), ErrorCountMax),
              "High error count")
    \o SymOpt(Less(Get(device_data.wifi_signal_strength, 0), WifiMin),
              "Weak WiFi signal")
    \o SymOpt(Less(Get(device_data.uptime_hours, 0), UptimeMin),
              "Frequent reboots detected")
    \o SymOpt(IsInvalidReading(device_data.temperature),
              "Invalid temperature reading")
    \o SymOpt(IsInvalidReading(device_data.humidity),
              "Invalid humidity reading")
    \o SymOpt(IsInvalidReading(device_data.pressure),
              "Invalid pressure reading")

(***************************************************************************)
(* _assess_severity (lines 316-343).                                       *)
(***************************************************************************)
\* `any(keyword in symptom.lower() for keyword in critical_keywords)` with
\* critical_keywords = ['battery', 'temperature', 'memory', 'reboot'].
HasCriticalKeyword(symptom) ==
    symptom \in { "Low battery voltage", "Extreme temperature",
                  "High memory usage", "Frequent reboots detected",
                  "Invalid temperature reading" }

\* A scoring in which a symptom without keyword lowers the score.
SymptomWeightNegativeElse(symptom) ==
    IF HasCriticalKeyword(symptom) THEN 2 ELSE -1

\* Lines 323-326: += 2 for a keyword symptom, += 1 otherwise.
SymptomWeight(symptom) ==
    IF HasCriticalKeyword(symptom) THEN 2 ELSE 1

RECURSIVE SumWeights(_)
SumWeights(symptoms) ==
    IF symptoms = <<>> THEN 0
    ELSE SymptomWeight(Head(symptoms)) + SumWeights(Tail(symptoms))

\* Twice the severity_score of lines 318-331.
SeverityScore2(symptoms, device_id) ==
    IF DeviceIdContains(device_id, "critical")
       \/ DeviceIdContains(device_id, "production")
    THEN 3 * SumWeights(symptoms)
    ELSE 2 * SumWeights(symptoms)

AssessSeverity(symptoms, device_id) ==
    LET score2 == SeverityScore2(symptoms, device_id) IN
    IF score2 >= 2 * CatastrophicScore THEN CATASTROPHIC
    ELSE IF score2 >= 2 * CriticalScore THEN CRITICAL
    ELSE IF score2 >= 2 * HighScore THEN HIGH
    ELSE IF score2 >= 2 * MediumScore THEN MEDIUM
    ELSE LOW

(***************************************************************************)
(* _analyze_root_cause (lines 345-384).  The answer of the language model  *)
(* is free text; the planner only reads which of its keywords the          *)
(* lower-cased text contains, so a root cause is the set of those.         *)
(***************************************************************************)
CauseKeywords ==
    {"battery", "temperature", "memory", "cpu", "reboot", "crash", "wifi",
     "network"}

\* "Unable to determine root cause due to analysis error" (line 384)
\* contains none of the keywords.
AnalysisErrorCause == {}

(***************************************************************************)
(* _generate_recovery_plan (lines 386-500).  A plan step keeps the step    *)
(* number and the action.                                                  *)
(***************************************************************************)
PlanStep(n, a) == [step |-> n, action |-> a]

CauseActions(root_cause) ==
    IF "battery" \in root_cause
    THEN <<PlanStep(2, "restart_service"), PlanStep(3, "battery_optimization")>>
    ELSE IF "temperature" \in root_cause
    THEN <<PlanStep(2, "cooling_check"), PlanStep(3, "recalibrate_sensors")>>
    ELSE IF "memory" \in root_cause \/ "cpu" \in root_cause
    THEN <<PlanStep(2, "restart_service"), PlanStep(3, "memory_cleanup")>>
    ELSE IF "reboot" \in root_cause \/ "crash" \in root_cause
    THEN <<PlanStep(2, "update_firmware"), PlanStep(3, "stability_test")>>
    ELSE IF "wifi" \in root_cause \/ "network" \in root_cause
    THEN <<PlanStep(2, "network_reset"), PlanStep(3, "network_optimization")>>
    ELSE <<>>

\* A planner that asks for manual intervention from HIGH on.
ManualInterventionNeededFromHigh(severity) == severity >= HIGH

\* Line 491: severity.value >= IncidentSeverity.CRITICAL.value
ManualInterventionNeeded(severity) == severity >= CRITICAL

\* A planner without the diagnostic step: only the cause-targeted actions and
\* the manual intervention.
GenerateRecoveryPlanTargetedOnly(root_cause, severity) ==
    LET base == CauseActions(root_cause)
    IN  IF ManualInterventionNeeded(severity)
        THEN Append(base, PlanStep(Len(base) + 1, "manual_intervention"))
        ELSE base

GenerateRecoveryPlan(root_cause, severity) ==
    LET base == <<PlanStep(1, "diagnostic_check")>> \o CauseActions(root_cause)
    IN  IF ManualInterventionNeeded(severity)
        THEN Append(base, PlanStep(Len(base) + 1, "manual_intervention"))
        ELSE base

\* RecoveryAction values (lines 76-86): the actions execute_recovery
\* dispatches through self.recovery_actions; every other action of a plan is
\* a custom action.
RecoveryActionValues ==
    {"restart_service", "reboot_device", "recalibrate_sensors",
     "update_firmware", "scale_resources", "network_reset", "factory_reset",
     "replace_hardware", "manual_intervention"}

(***************************************************************************)
(* Inputs of the model.                                                    *)
(***************************************************************************)
\* The values each metric of a snapshot is drawn from: on both sides of its
\* threshold, and missing or NaN for the validated sensor readings.
MetricValues ==
    [ battery_voltage      |-> {Num(31), Num(32), Num(33)},
      temperature          |-> {Absent, NaN, Num(-20), Num(25), Num(65)},
      memory_usage         |-> {Num(50), Num(95)},
      cpu_usage            |-> {Num(50), Num(98)},
      error_count          |-> {Num(0), Num(15)},
      wifi_signal_strength |-> {Num(-85), Num(-60)},
      uptime_hours         |-> {Num(5), Num(500)},
      humidity             |-> {Num(45), Absent},
      pressure             |-> {Num(1013), Absent} ]

Snapshots ==
    [ battery_voltage      : MetricValues.battery_voltage,
      temperature          : MetricValues.temperature,
      memory_usage         : MetricValues.memory_usage,
      cpu_usage            : MetricValues.cpu_usage,
      error_count          : MetricValues.error_count,
      wifi_signal_strength : MetricValues.wifi_signal_strength,
      uptime_hours         : MetricValues.uptime_hours,
      humidity             : MetricValues.humidity,
      pressure             : MetricValues.pressure ]

\* A healthy snapshot: no rule of _detect_symptoms fires.
SnapHealthy ==
    [ battery_voltage |-> Num(33), temperature |-> Num(25),
      memory_usage |-> Num(50), cpu_usage |-> Num(50),
      error_count |-> Num(0), wifi_signal_strength |-> Num(-60),
      uptime_hours |-> Num(500), humidity |-> Num(45),
      pressure |-> Num(1013) ]

\* battery_voltage = 3.1 V and nothing else.
SnapLowBattery == [SnapHealthy EXCEPT !.battery_voltage = Num(31)]

\* Overheated and out of memory.
SnapOverheat ==
    [SnapHealthy EXCEPT !.temperature = Num(65), !.memory_usage = Num(95)]

\* The problem_device_data of main() (lines 959-971).
SnapMain ==
    [ battery_voltage |-> Num(31), temperature |-> Num(65),
      memory_usage |-> Num(95), cpu_usage |-> Num(98),
      error_count |-> Num(15), wifi_signal_strength |-> Num(-85),
      uptime_hours |-> Num(5), humidity |-> Num(45),
      pressure |-> Num(1013) ]

\* The root causes the planner is tried on: every keyword alone, every pair
\* of keywords, and a text with none of them.
RootCauses == {c \in SUBSET CauseKeywords : Cardinality(c) <= 2}

SymptomSet(symptoms) == {symptoms[k] : k \in 1..Len(symptoms)}

PlanActions(plan) == {plan[k].action : k \in 1..Len(plan)}

(***************************************************************************)
(* State.                                                                  *)
(***************************************************************************)
VARIABLES
    \* --- the recovery system ---
    incidents,    \* the IncidentReport objects created, in creation order
    results,      \* the RecoveryResult objects recorded, in recording order
    pc,           \* task -> where the task is in its code
    dev,          \* task -> device_id of the device_data it is handling
    data,         \* task -> the device_data it is handling
    cur,          \* task -> its incident (index into incidents), 0 for None
    stepi,        \* task -> index of the plan step execute_recovery is at
    loc,          \* task -> the locals of its execute_recovery call
    fleet,        \* the device keys "device:<id>:latest" in Redis, in order
    keys,         \* the device keys left in the monitoring loop's sweep
    called,       \* whether the caller has called detect_incident
    quota,        \* IncidentReport objects the behaviour may still create
    patterns,     \* signature -> the counts of self.recovery_patterns
    post,         \* task -> the helpers its call of execute_recovery has
                  \* awaited after the final verification, in order
    \* --- the planner and the severity assessment applied to drawn inputs ---
    fn_pc, fn_device, fn_data, fn_symptoms, fn_severity, fn_prev, fn_cause,
    fn_plan,
    \* --- a recovery action applied to a drawn state of the service ---
    fn_action,    \* the RecoveryAction executed
    fn_k8s,       \* replicas of the deployment, max_replicas of its autoscaler
    fn_once,      \* fn_k8s as the first execution left it
    fn_runs,      \* executions of the action so far
    fn_ok,        \* whether every execution so far returned success
    \* --- the deployment orchestrator ---
    deployment_pipelines, \* the pipeline the jobs name
    jobs,                 \* job -> its status, its stage and where
                          \* _execute_global_deployment is for it
    active_deployments,   \* the job ids in self.active_deployments
    deployment_history    \* self.deployment_history, as job ids

sysvars == <<incidents, results, pc, dev, data, cur, stepi, loc, fleet, keys,
             called, quota, patterns, post>>

k8svars == <<fn_action, fn_k8s, fn_once, fn_runs, fn_ok>>

depvars == <<deployment_pipelines, jobs, active_deployments,
             deployment_history>>

fnvars == <<fn_pc, fn_device, fn_data, fn_symptoms, fn_severity, fn_prev,
            fn_cause, fn_plan, k8svars, depvars>>

vars == <<sysvars, fnvars>>

(***************************************************************************)
(* Initial values.                                                         *)
(***************************************************************************)
\* The devices whose snapshots the monitoring loop finds in Redis, in the
\* order the keys come back.
FleetKeys == <<"ESP32-CRITICAL-001", "ESP32-LAB-002">>

Fleet == {FleetKeys[k] : k \in 1..Len(FleetKeys)}

Tasks == {"monitor", "caller"}

NoPrev == [valid |-> FALSE, symptoms |-> <<>>, severity |-> LOW]

\* Lines 506-510: the locals of execute_recovery.
InitLocals ==
    [ success |-> FALSE, manual_intervention |-> FALSE,
      actions_taken |-> <<>>, lessons_learned |-> {} ]

\* self.recovery_patterns (lines 161-163): a dictionary from signature to
\* the outcomes learned for it, empty at the start.
NoPatterns == [s \in {} |-> [success_count |-> 0, failure_count |-> 0]]

\* The counts the store p holds for a signature.
Counts(p, signature) ==
    IF signature \in DOMAIN p THEN p[signature]
    ELSE [success_count |-> 0, failure_count |-> 0]

\* The signature of an incident's pattern: its root-cause category.
Signature(incident) == incident.root_cause

\* An update computed from the counts read when the store was loaded: what
\* an unserialized read-modify-write leaves when another update intervened.
LearnFromRecoveryStale(p, signature, success) ==
    [s \in DOMAIN p \cup {signature} |->
        IF s # signature THEN p[s]
        ELSE IF success
        THEN [Counts(p, s) EXCEPT
                 !.success_count = Counts(NoPatterns, s).success_count + 1]
        ELSE [Counts(p, s) EXCEPT
                 !.failure_count = Counts(NoPatterns, s).failure_count + 1]]

\* _learn_from_recovery (called at line 593): the outcome of the recovery is
\* counted for the pattern of the incident's signature, as one serialized
\* update.
LearnFromRecovery(p, signature, success) ==
    [s \in DOMAIN p \cup {signature} |->
        IF s # signature THEN p[s]
        ELSE IF success
        THEN [Counts(p, s) EXCEPT !.success_count = @ + 1]
        ELSE [Counts(p, s) EXCEPT !.failure_count = @ + 1]]

SysIdle ==
    /\ incidents = <<>>
    /\ results = <<>>
    /\ pc = [t \in Tasks |-> "idle"]
    /\ dev = [t \in Tasks |-> "none"]
    /\ data = [t \in Tasks |-> SnapHealthy]
    /\ cur = [t \in Tasks |-> 0]
    /\ stepi = [t \in Tasks |-> 0]
    /\ loc = [t \in Tasks |-> InitLocals]
    /\ fleet = FleetKeys
    /\ keys = <<>>
    /\ called = FALSE
    /\ quota = 0
    /\ patterns = NoPatterns
    /\ post = [t \in Tasks |-> <<>>]

\* No pipeline registered and no job triggered (lines 206-209).
Jobs == 1..MaxJobs

NoPipeline == [known |-> FALSE, stages |-> 1, auto_rollback |-> FALSE]

NoJob == [status |-> "none", stage |-> 0, pc |-> "none"]

DepIdle ==
    /\ deployment_pipelines = NoPipeline
    /\ jobs = [j \in Jobs |-> NoJob]
    /\ active_deployments = {}
    /\ deployment_history = <<>>

\* One replica, and an autoscaler that allows two.
K8sIdle ==
    /\ fn_action = "none"
    /\ fn_k8s = [replicas |-> 1, max_replicas |-> 2]
    /\ fn_once = fn_k8s
    /\ fn_runs = 0
    /\ fn_ok = TRUE

FnIdle ==
    /\ fn_pc = "off"
    /\ fn_device = "ESP32-LAB-002"
    /\ fn_data = SnapHealthy
    /\ fn_symptoms = <<>>
    /\ fn_severity = LOW
    /\ fn_prev = NoPrev
    /\ fn_cause = {}
    /\ fn_plan = <<>>
    /\ K8sIdle
    /\ DepIdle

(***************************************************************************)
(* _detect_symptoms and _assess_severity applied to drawn snapshots, a     *)
(* first time and again after one metric of the snapshot has changed.      *)
(***************************************************************************)
InitSeverity ==
    /\ SysIdle
    /\ fn_pc = "detect"
    /\ fn_device \in DeviceIds
    /\ fn_data \in Snapshots
    /\ fn_symptoms = <<>>
    /\ fn_severity = LOW
    /\ fn_prev = NoPrev
    /\ fn_cause = {}
    /\ fn_plan = <<>>
    /\ K8sIdle
    /\ DepIdle

\* Lines 220-222.
FnDetectSymptoms ==
    /\ fn_pc = "detect"
    /\ fn_symptoms' = DetectSymptoms(fn_data)
    /\ fn_pc' = IF fn_symptoms' = <<>> THEN "none" ELSE "assess"
    /\ UNCHANGED <<fn_device, fn_data, fn_severity, fn_prev, fn_cause,
                   fn_plan>>
    /\ UNCHANGED k8svars
    /\ UNCHANGED depvars
    /\ UNCHANGED sysvars

\* Line 225.
FnAssessSeverity ==
    /\ fn_pc = "assess"
    /\ fn_severity' = AssessSeverity(fn_symptoms, fn_device)
    /\ fn_pc' = "assessed"
    /\ UNCHANGED <<fn_device, fn_data, fn_symptoms, fn_prev, fn_cause,
                   fn_plan>>
    /\ UNCHANGED k8svars
    /\ UNCHANGED depvars
    /\ UNCHANGED sysvars

\* The next snapshot of the device differs in one metric.
FnNextSnapshot ==
    /\ fn_pc \in {"none", "assessed"}
    /\ ~fn_prev.valid
    /\ \E f \in DOMAIN MetricValues : \E v \in MetricValues[f] :
          /\ v # fn_data[f]
          /\ fn_data' = [fn_data EXCEPT ![f] = v]
    /\ fn_prev' = IF fn_pc = "assessed"
                  THEN [valid |-> TRUE, symptoms |-> fn_symptoms,
                        severity |-> fn_severity]
                  ELSE NoPrev
    /\ fn_pc' = "detect"
    /\ UNCHANGED <<fn_device, fn_symptoms, fn_severity, fn_cause, fn_plan>>
    /\ UNCHANGED k8svars
    /\ UNCHANGED depvars
    /\ UNCHANGED sysvars

NextSeverity == FnDetectSymptoms \/ FnAssessSeverity \/ FnNextSnapshot

SpecSeverity == InitSeverity /\ [][NextSeverity]_vars

(***************************************************************************)
(* _generate_recovery_plan applied to drawn root causes and severities.    *)
(***************************************************************************)
InitPlan ==
    /\ SysIdle
    /\ fn_pc = "plan"
    /\ fn_device = "ESP32-LAB-002"
    /\ fn_data = SnapHealthy
    /\ fn_symptoms = <<>>
    /\ fn_severity \in LOW..CATASTROPHIC
    /\ fn_prev = NoPrev
    /\ fn_cause \in RootCauses
    /\ fn_plan = <<>>
    /\ K8sIdle
    /\ DepIdle

\* Line 231.
FnGeneratePlan ==
    /\ fn_pc = "plan"
    /\ fn_plan' = GenerateRecoveryPlan(fn_cause, fn_severity)
    /\ fn_pc' = "planned"
    /\ UNCHANGED <<fn_device, fn_data, fn_symptoms, fn_severity, fn_prev,
                   fn_cause>>
    /\ UNCHANGED k8svars
    /\ UNCHANGED depvars
    /\ UNCHANGED sysvars

NextPlan == FnGeneratePlan

SpecPlan == InitPlan /\ [][NextPlan]_vars

(***************************************************************************)
(* _restart_service and _scale_resources applied, twice in a row with the  *)
(* same parameters, to a drawn state of the device's service.  `outcome`   *)
(* says which Kubernetes call, if any, raises; the handler then returns a  *)
(* failure (lines 632-634, 723-725).                                       *)
(***************************************************************************)
\* Lines 600-634: the deployment is scaled to 0 and then to 1.
RestartService(k8s, outcome) ==
    CASE outcome = "ok" ->
            [success |-> TRUE, k8s |-> [k8s EXCEPT !.replicas = 1]]
      [] outcome = "second_patch_raises" ->
            [success |-> FALSE, k8s |-> [k8s EXCEPT !.replicas = 0]]
      [] OTHER -> [success |-> FALSE, k8s |-> k8s]

\* Lines 700-725: max_replicas of the autoscaler is doubled, up to the cap.
ScaleResources(k8s, outcome) ==
    CASE outcome = "ok" ->
            [success |-> TRUE,
             k8s |-> [k8s EXCEPT !.max_replicas =
                         IF @ * 2 < HpaReplicasCap THEN @ * 2
                         ELSE HpaReplicasCap]]
      [] OTHER -> [success |-> FALSE, k8s |-> k8s]

\* self.recovery_actions (lines 149-159) for the two actions.
RunAction(action, k8s, outcome) ==
    IF action = "restart_service" THEN RestartService(k8s, outcome)
    ELSE ScaleResources(k8s, outcome)

ActionOutcomes(action) ==
    IF action = "restart_service"
    THEN {"ok", "read_raises", "first_patch_raises", "second_patch_raises"}
    ELSE {"ok", "read_raises", "patch_raises"}

InitActions ==
    /\ SysIdle
    /\ fn_pc = "act"
    /\ fn_device = "ESP32-LAB-002"
    /\ fn_data = SnapHealthy
    /\ fn_symptoms = <<>>
    /\ fn_severity = LOW
    /\ fn_prev = NoPrev
    /\ fn_cause = {}
    /\ fn_plan = <<>>
    /\ fn_action \in {"restart_service", "scale_resources"}
    /\ fn_k8s \in [replicas : 0..MaxReplicas, max_replicas : 1..MaxHpaReplicas]
    /\ fn_once = fn_k8s
    /\ fn_runs = 0
    /\ fn_ok = TRUE
    /\ DepIdle

\* Line 529: the handler of the action is awaited.
FnRunAction(outcome) ==
    /\ fn_pc = "act"
    /\ fn_runs < 2
    /\ outcome \in ActionOutcomes(fn_action)
    /\ LET r == RunAction(fn_action, fn_k8s, outcome) IN
          /\ fn_k8s' = r.k8s
          /\ fn_ok' = (fn_ok /\ r.success)
          /\ fn_once' = IF fn_runs = 0 THEN r.k8s ELSE fn_once
    /\ fn_runs' = fn_runs + 1
    /\ UNCHANGED <<fn_pc, fn_device, fn_data, fn_symptoms, fn_severity,
                   fn_prev, fn_cause, fn_plan, fn_action>>
    /\ UNCHANGED depvars
    /\ UNCHANGED sysvars

NextActions ==
    \E outcome \in {"ok", "read_raises", "first_patch_raises",
                     "second_patch_raises", "patch_raises"} :
        FnRunAction(outcome)

SpecActions == InitActions /\ [][NextActions]_vars

(***************************************************************************)
(* The recovery system: the monitoring loop (_monitor_device_health) and   *)
(* one caller that uses detect_incident and execute_recovery the way       *)
(* main() does.  Both are asyncio tasks: a task runs until it awaits       *)
(* something that suspends it, which is where the actions end.             *)
(***************************************************************************)
\* The snapshots that arrive for the fleet, and the root causes the analysis
\* answers with.
FleetSnapshots == {SnapHealthy, SnapLowBattery, SnapOverheat}

FleetCauses == {{"battery"}}

InitSystem ==
    /\ incidents = <<>>
    /\ results = <<>>
    /\ pc = [t \in Tasks |-> "idle"]
    /\ dev = [t \in Tasks |-> "none"]
    /\ data = [t \in Tasks |-> SnapHealthy]
    /\ cur = [t \in Tasks |-> 0]
    /\ stepi = [t \in Tasks |-> 0]
    /\ loc = [t \in Tasks |-> InitLocals]
    /\ fleet = FleetKeys
    /\ keys = <<>>
    /\ called = FALSE
    /\ quota = MaxIncidents
    /\ patterns = NoPatterns
    /\ post = [t \in Tasks |-> <<>>]
    /\ FnIdle

(*------------------------- detect_incident -------------------------------*)
\* Lines 213-228: symptoms, severity, then the request to the language
\* model is sent.  Without symptoms the call returns None.
DetectIncident(t) ==
    /\ pc[t] = "detect"
    /\ LET symptoms == DetectSymptoms(data[t]) IN
       IF symptoms = <<>>
       THEN /\ cur' = [cur EXCEPT ![t] = 0]
            /\ pc' = [pc EXCEPT ![t] = "detected"]
            /\ UNCHANGED <<incidents, quota>>
       ELSE /\ quota > 0
            /\ quota' = quota - 1
            /\ incidents' = Append(incidents,
                  [ device_id     |-> dev[t],
                    symptoms      |-> symptoms,
                    severity      |-> AssessSeverity(symptoms, dev[t]),
                    root_cause    |-> {},
                    recovery_plan |-> <<>>,
                    recorded      |-> FALSE ])
            /\ cur' = [cur EXCEPT ![t] = Len(incidents) + 1]
            /\ pc' = [pc EXCEPT ![t] = "diagnose"]
    /\ UNCHANGED <<results, dev, data, stepi, loc, fleet, patterns, post,
                   keys, called>>
    /\ UNCHANGED fnvars

\* Lines 371-384 and 231: the answer arrives, or the request fails and the
\* fixed error text is the root cause; the plan is generated from it.
AnalyzeRootCause(t, root_cause) ==
    /\ pc[t] = "diagnose"
    /\ incidents' = [incidents EXCEPT
          ![cur[t]].root_cause = root_cause,
          ![cur[t]].recovery_plan =
              GenerateRecoveryPlan(root_cause, incidents[cur[t]].severity)]
    /\ pc' = [pc EXCEPT ![t] = "record"]
    /\ UNCHANGED <<results, dev, data, cur, stepi, loc, fleet, patterns, post,
                   keys, called, quota>>
    /\ UNCHANGED fnvars

\* Lines 234-262: the IncidentReport is built, recorded and returned.
RecordIncident(t) ==
    /\ pc[t] = "record"
    /\ incidents' = [incidents EXCEPT ![cur[t]].recorded = TRUE]
    /\ pc' = [pc EXCEPT ![t] = "detected"]
    /\ UNCHANGED <<results, dev, data, cur, stepi, loc, fleet, patterns, post,
                   keys, called, quota>>
    /\ UNCHANGED fnvars

(*------------------------- execute_recovery ------------------------------*)
\* Lines 502-516: the locals are initialised and the dependency impact is
\* analysed; when that raises, the outer handler (lines 566-569) runs.
StartRecovery(t, impact) ==
    /\ pc[t] = "recover"
    /\ stepi' = [stepi EXCEPT ![t] = 1]
    /\ IF impact = "raises"
       THEN /\ loc' = [loc EXCEPT ![t] =
                  [InitLocals EXCEPT
                      !.actions_taken = <<"Critical error during recovery">>,
                      !.lessons_learned = {"Recovery process exception"}]]
            /\ pc' = [pc EXCEPT ![t] = "finalize"]
       ELSE /\ loc' = [loc EXCEPT ![t] =
                  [InitLocals EXCEPT !.lessons_learned =
                      IF impact = "high_risk"
                      THEN {"High dependency risk detected"} ELSE {}]]
            /\ pc' = [pc EXCEPT ![t] = "step"]
    /\ post' = [post EXCEPT ![t] = <<>>]
    /\ UNCHANGED <<incidents, results, dev, data, cur, fleet, patterns, keys,
                   called, quota>>
    /\ UNCHANGED fnvars

\* A handler that swallows the exception: nothing is left of the failed step.
StepExceptionLost(l) == l

\* What the per-step handler of lines 552-555 does with an exception raised
\* inside the step: the failure is logged and the loop goes on.
StepExceptionLeaves(l) ==
    [l EXCEPT !.actions_taken = Append(@, "FAILED"),
              !.lessons_learned = @ \cup {"Exception in step"}]

\* A loop without the per-step handler: an exception raised in a step
\* reaches the outer handler (lines 566-569) and ends the loop.
AfterStepAborting(k, n, raised) ==
    IF raised THEN "finalize" ELSE IF k < n THEN "step" ELSE "verify"

\* pc after plan step k of n has been handled, whether or not the step
\* raised (lines 519, 552-557).
AfterStep(k, n, raised) == IF k < n THEN "step" ELSE "verify"

\* Lines 519-555, one iteration.  `result` is what the action returns
\* ("success", "failure") or "raises"; `verified` is what the verification of
\* the step returns ("pass", "fail") or "raises".  The handlers of the
\* RecoveryAction values catch every exception and return a failure instead
\* (lines 600-803).
ExecuteStep(t, result, verified) ==
    /\ pc[t] = "step"
    /\ LET plan   == incidents[cur[t]].recovery_plan
           action == plan[stepi[t]].action
           known  == action \in RecoveryActionValues
           l0     == loc[t]
           \* lines 533-534
           l1     == IF known /\ action = "manual_intervention"
                     THEN [l0 EXCEPT !.manual_intervention = TRUE] ELSE l0
           \* lines 536, 543
           l2     == [l1 EXCEPT !.actions_taken = Append(@, "status")]
           \* lines 538-539
           l3     == IF known /\ result = "failure"
                     THEN [l2 EXCEPT !.lessons_learned =
                                        @ \cup {"Failed action"}]
                     ELSE l2
           \* lines 546-550
           l4     == IF verified = "fail"
                     THEN [l3 EXCEPT !.lessons_learned =
                                        @ \cup {"Verification failed for step"}]
                     ELSE l3
       IN  /\ known => result # "raises"
           /\ loc' = [loc EXCEPT ![t] =
                 IF result = "raises" THEN StepExceptionLeaves(l0)
                 ELSE IF verified = "raises" THEN StepExceptionLeaves(l3)
                 ELSE l4]
           /\ pc' = [pc EXCEPT ![t] =
                 AfterStep(stepi[t], Len(plan),
                           result = "raises" \/ verified = "raises")]
           /\ stepi' = [stepi EXCEPT ![t] = @ + 1]
    /\ UNCHANGED <<incidents, results, dev, data, cur, fleet, patterns, post,
                   keys, called, quota>>
    /\ UNCHANGED fnvars

\* Lines 529, 607-628: the Kubernetes calls of _restart_service are made
\* without a timeout and nothing bounds the awaited handler: when such a call
\* never returns, the task stays in the step for good.
ExternalCallHangs(t) ==
    /\ pc[t] = "step"
    /\ incidents[cur[t]].recovery_plan[stepi[t]].action = "restart_service"
    /\ pc' = [pc EXCEPT ![t] = "hung"]
    /\ UNCHANGED <<incidents, results, dev, data, cur, stepi, loc, fleet,
                   patterns, post, keys, called, quota>>
    /\ UNCHANGED fnvars

\* A final verification whose pass counts only when no action of the plan
\* failed or raised.
AfterFullVerificationUnlessFailed(l, verified) ==
    IF verified = "pass"
    THEN [l EXCEPT !.success =
             l.lessons_learned \cap {"Failed action", "Exception in step"} = {}]
    ELSE IF verified = "fail"
    THEN [l EXCEPT !.lessons_learned =
                      @ \cup {"Full recovery verification failed"}]
    ELSE [l EXCEPT !.actions_taken =
                      Append(@, "Critical error during recovery"),
                   !.lessons_learned = @ \cup {"Recovery process exception"}]

\* Lines 558-569: the locals after _verify_full_recovery returned True
\* ("pass") or False ("fail"), or raised.
AfterFullVerification(l, verified) ==
    IF verified = "pass" THEN [l EXCEPT !.success = TRUE]
    ELSE IF verified = "fail"
    THEN [l EXCEPT !.lessons_learned =
                      @ \cup {"Full recovery verification failed"}]
    ELSE [l EXCEPT !.actions_taken =
                      Append(@, "Critical error during recovery"),
                   !.lessons_learned = @ \cup {"Recovery process exception"}]

\* Lines 557-569: the final verification of the device.
VerifyFullRecovery(t, verified) ==
    /\ pc[t] = "verify"
    /\ loc' = [loc EXCEPT ![t] = AfterFullVerification(@, verified)]
    /\ pc' = [pc EXCEPT ![t] = "finalize"]
    /\ UNCHANGED <<incidents, results, dev, data, cur, stepi, fleet, patterns,
                   post, keys, called, quota>>
    /\ UNCHANGED fnvars

\* A result that reports success whatever the final verification said.
ResultSuccessAlways(l) == TRUE

\* Line 582: the success of the RecoveryResult is the local `success`.
ResultSuccess(l) == l.success

\* Lines 592-596: the helpers awaited once the RecoveryResult is built, in
\* the order of the calls.
PostCalls == <<"record", "learn", "notify">>

\* Lines 571-598: the RecoveryResult is built, recorded, learned from,
\* notified and returned, none of the helpers raising.
RecordRecoveryResult(t) ==
    /\ pc[t] = "finalize"
    /\ results' = Append(results,
          [ incident            |-> cur[t],
            success             |-> ResultSuccess(loc[t]),
            manual_intervention |-> loc[t].manual_intervention ])
    /\ patterns' = LearnFromRecovery(patterns, Signature(incidents[cur[t]]),
                                     ResultSuccess(loc[t]))
    /\ post' = [post EXCEPT ![t] = PostCalls]
    /\ loc' = [loc EXCEPT ![t] = InitLocals]
    /\ stepi' = [stepi EXCEPT ![t] = 0]
    /\ pc' = [pc EXCEPT ![t] = "recovered"]
    /\ UNCHANGED <<incidents, dev, data, cur, fleet, keys,
                   called, quota>>
    /\ UNCHANGED fnvars

(*----------------------- _monitor_device_health --------------------------*)
\* Lines 850-853: a sweep starts with the device keys found in Redis.
MonitorSweep ==
    /\ pc["monitor"] = "idle"
    /\ keys' = fleet
    /\ pc' = [pc EXCEPT !["monitor"] = "loop"]
    /\ UNCHANGED <<incidents, results, dev, data, cur, stepi, loc,
                   fleet, patterns, post, called, quota>>
    /\ UNCHANGED fnvars

\* Lines 855-859: the next key's snapshot is read from Redis (`snapshot` is
\* what the telemetry ingest wrote last under "device:<id>:latest") and
\* detect_incident is called; after the last key the loop sleeps (line 869).
MonitorNextKey(snapshot) ==
    /\ pc["monitor"] = "loop"
    /\ IF keys = <<>>
       THEN /\ snapshot = SnapHealthy
            /\ pc' = [pc EXCEPT !["monitor"] = "idle"]
            /\ data' = [data EXCEPT !["monitor"] = SnapHealthy]
            /\ dev' = [dev EXCEPT !["monitor"] = "none"]
            /\ UNCHANGED keys
       ELSE /\ dev' = [dev EXCEPT !["monitor"] = Head(keys)]
            /\ data' = [data EXCEPT !["monitor"] = snapshot]
            /\ keys' = Tail(keys)
            /\ pc' = [pc EXCEPT !["monitor"] = "detect"]
    /\ cur' = [cur EXCEPT !["monitor"] = 0]
    /\ UNCHANGED <<incidents, results, stepi, loc, fleet, patterns, post,
                   called, quota>>
    /\ UNCHANGED fnvars

\* A loop that executes the recovery from MEDIUM on.
MonitorRecoversFromMedium(severity) == severity >= MEDIUM

\* Line 865: incident.severity.value >= IncidentSeverity.HIGH.value
MonitorRecovers(severity) == severity >= HIGH

\* Lines 861-866: recovery is executed for an incident of severity HIGH or
\* above; otherwise the loop goes on with the next key.
MonitorAfterDetect ==
    /\ pc["monitor"] = "detected"
    /\ pc' = [pc EXCEPT !["monitor"] =
          IF cur["monitor"] # 0
             /\ MonitorRecovers(incidents[cur["monitor"]].severity)
          THEN "recover" ELSE "loop"]
    /\ UNCHANGED <<incidents, results, dev, data, cur, stepi, loc, fleet,
                   patterns, post, keys, called, quota>>
    /\ UNCHANGED fnvars

\* A loop that, after execute_recovery has returned, executes the recovery
\* of the same incident again.
AfterRecoveryAgain == "recover"

\* Line 867: execute_recovery has returned; the for loop goes on.
AfterRecovery == "loop"

MonitorAfterRecovery ==
    /\ pc["monitor"] = "recovered"
    /\ pc' = [pc EXCEPT !["monitor"] = AfterRecovery]
    /\ UNCHANGED <<incidents, results, dev, data, cur, stepi, loc, fleet,
                   patterns, post, keys, called, quota>>
    /\ UNCHANGED fnvars

(*------------------------------ main() -----------------------------------*)
\* Line 975: a caller hands detect_incident the device_data of a device.
CallerDetect(d, snapshot) ==
    /\ pc["caller"] = "idle"
    /\ ~called
    /\ called' = TRUE
    /\ dev' = [dev EXCEPT !["caller"] = d]
    /\ data' = [data EXCEPT !["caller"] = snapshot]
    /\ cur' = [cur EXCEPT !["caller"] = 0]
    /\ pc' = [pc EXCEPT !["caller"] = "detect"]
    /\ UNCHANGED <<incidents, results, stepi, loc, fleet, patterns, post,
                   keys, quota>>
    /\ UNCHANGED fnvars

\* Lines 977-985: `if incident:` then execute_recovery, whatever the
\* severity.
CallerAfterDetect ==
    /\ pc["caller"] = "detected"
    /\ pc' = [pc EXCEPT !["caller"] =
          IF cur["caller"] # 0 THEN "recover" ELSE "idle"]
    /\ IF cur["caller"] # 0
       THEN UNCHANGED <<dev, data>>
       ELSE /\ dev' = [dev EXCEPT !["caller"] = "none"]
            /\ data' = [data EXCEPT !["caller"] = SnapHealthy]
    /\ UNCHANGED <<incidents, results, cur, stepi, loc, fleet, patterns, post,
                   keys, called, quota>>
    /\ UNCHANGED fnvars

\* Line 987: execute_recovery has returned.
CallerAfterRecovery ==
    /\ pc["caller"] = "recovered"
    /\ pc' = [pc EXCEPT !["caller"] = "idle"]
    /\ dev' = [dev EXCEPT !["caller"] = "none"]
    /\ data' = [data EXCEPT !["caller"] = SnapHealthy]
    /\ cur' = [cur EXCEPT !["caller"] = 0]
    /\ UNCHANGED <<incidents, results, stepi, loc, fleet, patterns, post,
                   keys, called, quota>>
    /\ UNCHANGED fnvars

(*-------------------------------------------------------------------------*)
Next ==
    \/ \E t \in Tasks : DetectIncident(t)
    \/ \E t \in Tasks : \E c \in FleetCauses : AnalyzeRootCause(t, c)
    \/ \E t \in Tasks : RecordIncident(t)
    \/ \E t \in Tasks : \E impact \in {"low_risk", "raises"} :
          StartRecovery(t, impact)
    \/ \E t \in Tasks : \E result \in {"success", "failure"} :
          ExecuteStep(t, result, "pass")
    \/ \E t \in Tasks : \E verified \in {"pass", "fail", "raises"} :
          VerifyFullRecovery(t, verified)
    \/ \E t \in Tasks : RecordRecoveryResult(t)
    \/ MonitorSweep
    \/ \E snapshot \in FleetSnapshots : MonitorNextKey(snapshot)
    \/ MonitorAfterDetect
    \/ MonitorAfterRecovery
    \/ \E d \in Fleet : \E snapshot \in FleetSnapshots \ {SnapHealthy} :
          CallerDetect(d, snapshot)
    \/ CallerAfterDetect
    \/ CallerAfterRecovery

Spec == InitSystem /\ [][Next]_vars

(***************************************************************************)
(* The monitoring loop running alone over one device.                      *)
(***************************************************************************)
InitMonitor ==
    /\ incidents = <<>>
    /\ results = <<>>
    /\ pc = [t \in Tasks |-> "idle"]
    /\ dev = [t \in Tasks |-> "none"]
    /\ data = [t \in Tasks |-> SnapHealthy]
    /\ cur = [t \in Tasks |-> 0]
    /\ stepi = [t \in Tasks |-> 0]
    /\ loc = [t \in Tasks |-> InitLocals]
    /\ fleet = <<"ESP32-LAB-002">>
    /\ keys = <<>>
    /\ called = FALSE
    /\ quota = MaxMonitorIncidents
    /\ patterns = NoPatterns
    /\ post = [t \in Tasks |-> <<>>]
    /\ FnIdle

NextMonitor ==
    \/ DetectIncident("monitor")
    \/ \E c \in FleetCauses \cup {AnalysisErrorCause} :
          AnalyzeRootCause("monitor", c)
    \/ RecordIncident("monitor")
    \/ \E impact \in {"low_risk", "raises"} : StartRecovery("monitor", impact)
    \/ \E result \in {"success", "failure"} :
          ExecuteStep("monitor", result, "pass")
    \/ \E verified \in {"pass", "fail", "raises"} :
          VerifyFullRecovery("monitor", verified)
    \/ RecordRecoveryResult("monitor")
    \/ MonitorSweep
    \/ \E snapshot \in FleetSnapshots : MonitorNextKey(snapshot)
    \/ MonitorAfterDetect
    \/ MonitorAfterRecovery
    \/ ExternalCallHangs("monitor")

SpecMonitor == InitMonitor /\ [][NextMonitor]_vars

(***************************************************************************)
(* One call of execute_recovery on a drawn incident, with every outcome of *)
(* the dependency analysis, of each action and of each verification.       *)
(***************************************************************************)
\* Overheated, out of memory and low on battery.
SnapHotLowBattery == [SnapOverheat EXCEPT !.battery_voltage = Num(31)]

RecoverySnapshots ==
    {SnapLowBattery, SnapOverheat, SnapHotLowBattery, SnapMain}

RecoveryCauses == {{"battery"}, {"temperature"}, {"reboot", "crash"}, {}}

\* The IncidentReport detect_incident returns for a snapshot of a device.
IncidentFor(device_id, snapshot, root_cause) ==
    LET symptoms == DetectSymptoms(snapshot)
        severity == AssessSeverity(symptoms, device_id)
    IN  [ device_id     |-> device_id,
          symptoms      |-> symptoms,
          severity      |-> severity,
          root_cause    |-> root_cause,
          recovery_plan |-> GenerateRecoveryPlan(root_cause, severity),
          recorded      |-> TRUE ]

InitRecovery ==
    /\ \E d \in DeviceIds : \E snapshot \in RecoverySnapshots :
       \E c \in RecoveryCauses :
          /\ incidents = <<IncidentFor(d, snapshot, c)>>
          /\ dev = [t \in Tasks |-> IF t = "caller" THEN d ELSE "none"]
          /\ data = [t \in Tasks |->
                        IF t = "caller" THEN snapshot ELSE SnapHealthy]
    /\ results = <<>>
    /\ pc = [t \in Tasks |-> IF t = "caller" THEN "recover" ELSE "idle"]
    /\ cur = [t \in Tasks |-> IF t = "caller" THEN 1 ELSE 0]
    /\ stepi = [t \in Tasks |-> 0]
    /\ loc = [t \in Tasks |-> InitLocals]
    /\ fleet = FleetKeys
    /\ keys = <<>>
    /\ called = TRUE
    /\ quota = 0
    /\ patterns = NoPatterns
    /\ post = [t \in Tasks |-> <<>>]
    /\ FnIdle

NextRecovery ==
    \/ \E impact \in {"low_risk", "high_risk", "raises"} :
          StartRecovery("caller", impact)
    \/ \E result \in {"success", "failure", "raises"} :
       \E verified \in {"pass", "fail", "raises"} :
          ExecuteStep("caller", result, verified)
    \/ \E verified \in {"pass", "fail", "raises"} :
          VerifyFullRecovery("caller", verified)
    \/ RecordRecoveryResult("caller")
    \/ CallerAfterRecovery

SpecRecovery == InitRecovery /\ [][NextRecovery]_vars

(***************************************************************************)
(* The state of an incident.  IncidentReport has no state field: the state *)
(* of an incident is where the task that holds it is in detect_incident or *)
(* execute_recovery, and, once a RecoveryResult has been recorded for it,  *)
(* the success flag of that result.  The source has no outcome that hands  *)
(* an incident over as escalated.                                          *)
(***************************************************************************)
IncidentStates ==
    {"DETECTED", "DIAGNOSING", "PLANNING", "EXECUTING", "VERIFYING",
     "RESOLVED", "ESCALATED", "FAILED"}

TerminalStates == {"RESOLVED", "ESCALATED", "FAILED"}

\* pc values at which a task is inside execute_recovery.
RecoveryPcs == {"recover", "step", "hung", "verify", "finalize"}

\* pc values at which a task is working on its incident.
HoldingPcs == {"diagnose", "record", "detected"} \cup RecoveryPcs

TaskState(t) ==
    CASE pc[t] = "diagnose" -> "DIAGNOSING"
      [] pc[t] \in {"record", "detected"} -> "PLANNING"
      [] pc[t] \in {"recover", "step", "hung"} -> "EXECUTING"
      [] pc[t] \in {"verify", "finalize"} -> "VERIFYING"

Holders(i) == {t \in Tasks : cur[t] = i /\ pc[t] \in HoldingPcs}

ResultsOf(i) == {k \in 1..Len(results) : results[k].incident = i}

\* The states incident i is in: one per task working on it and one per
\* result recorded for it; an incident that has a plan, that no task works on
\* and that has no result stays planned.
ActiveStates(i) ==
    LET held   == {TaskState(t) : t \in Holders(i)}
        closed == {IF results[k].success THEN "RESOLVED" ELSE "FAILED" :
                      k \in ResultsOf(i)}
    IN  IF held \cup closed = {} THEN {"PLANNING"} ELSE held \cup closed

IsTerminal(i) == ActiveStates(i) \cap TerminalStates # {}

Incidents == 1..Len(incidents)

\* The failed recoveries recorded for device d since its last successful
\* one: the attempts made on the device's ongoing problem.
FailedAttempts(d) ==
    LET mine == {k \in 1..Len(results) :
                    incidents[results[k].incident].device_id = d}
        wins == {k \in mine : results[k].success}
    IN  Cardinality({k \in mine : \A w \in wins : w < k})

(***************************************************************************)
(* C1: RESOLVED, ESCALATED and FAILED are terminal and mutually exclusive: *)
(* once an incident is in one of them, no step changes the states it is    *)
(* in, so it takes no further transition and never holds another of the    *)
(* three.                                                                  *)
(***************************************************************************)
TerminalStatesAreFinal ==
    [][ \A i \in Incidents :
           IsTerminal(i) =>
              /\ Cardinality(ActiveStates(i) \cap TerminalStates) = 1
              /\ ActiveStates(i)' = ActiveStates(i) ]_vars

\* Both outcomes have been reached, and the monitoring loop has gone on
\* after the recovery of its incident returned.
TerminalWitness ==
    /\ \E i \in Incidents : ActiveStates(i) = {"RESOLVED"}
    /\ \E i \in Incidents : ActiveStates(i) = {"FAILED"}
    /\ pc["monitor"] = "loop"
    /\ cur["monitor"] # 0
    /\ IsTerminal(cur["monitor"])

(***************************************************************************)
(* C2: every incident is in exactly one state, and that state is one of    *)
(* DETECTED, DIAGNOSING, PLANNING, EXECUTING, VERIFYING, RESOLVED,         *)
(* ESCALATED, FAILED.                                                      *)
(***************************************************************************)
ExactlyOneDefinedState ==
    \A i \in Incidents :
        /\ Cardinality(ActiveStates(i)) = 1
        /\ ActiveStates(i) \subseteq IncidentStates

\* Two incidents at once, one being verified and one closed.
OneStateWitness ==
    /\ \E i \in Incidents : ActiveStates(i) = {"VERIFYING"}
    /\ \E i \in Incidents : IsTerminal(i)

(***************************************************************************)
(* C3: the attempts made on a device's problem never exceed max_attempts   *)
(* (reaching max_attempts hands the incident over instead of starting      *)
(* another recovery).                                                      *)
(***************************************************************************)
AttemptsNeverExceedMax ==
    \A d \in DeviceIds : FailedAttempts(d) <= max_attempts

(***************************************************************************)
(* C4: the attempt count changes only on a VERIFYING -> PLANNING           *)
(* transition of an incident of the device, where it grows by exactly 1.   *)
(***************************************************************************)
AttemptsChangeOnlyOnRetry ==
    [][ \A d \in DeviceIds :
           FailedAttempts(d)' # FailedAttempts(d) =>
              /\ FailedAttempts(d)' = FailedAttempts(d) + 1
              /\ \E i \in Incidents :
                    /\ incidents[i].device_id = d
                    /\ ActiveStates(i) = {"VERIFYING"}
                    /\ ActiveStates(i)' = {"PLANNING"} ]_vars

(***************************************************************************)
(* C5: for one device, when the symptom set grows (every symptom of the    *)
(* earlier assessment is among those of the later one), the severity       *)
(* assessed later is at least the severity assessed earlier.  The two      *)
(* snapshots differ in one metric; growth by several symptoms is a chain   *)
(* of such steps.                                                          *)
(***************************************************************************)
SeverityMonotoneUnderGrowth ==
    ( /\ fn_pc = "assessed"
      /\ fn_prev.valid
      /\ SymptomSet(fn_prev.symptoms) \subseteq SymptomSet(fn_symptoms) )
    => fn_prev.severity <= fn_severity

\* A strictly larger symptom set has been assessed, with a higher severity.
SeverityGrowthWitness ==
    /\ fn_pc = "assessed"
    /\ fn_prev.valid
    /\ SymptomSet(fn_prev.symptoms) \subseteq SymptomSet(fn_symptoms)
    /\ SymptomSet(fn_prev.symptoms) # SymptomSet(fn_symptoms)
    /\ fn_prev.severity < fn_severity

(***************************************************************************)
(* C6: at any time at most one recorded incident of a device is live (not  *)
(* in a terminal state).                                                   *)
(***************************************************************************)
LiveIncidents(d) ==
    {i \in Incidents : /\ incidents[i].device_id = d
                       /\ incidents[i].recorded
                       /\ ~IsTerminal(i)}

OneLiveIncidentPerDevice ==
    \A d \in DeviceIds : Cardinality(LiveIncidents(d)) <= 1

(***************************************************************************)
(* C7: for any device, at most one task is executing recovery actions      *)
(* against it at any time.                                                 *)
(***************************************************************************)
OneRecoveryInFlightPerDevice ==
    \A d \in DeviceIds :
        Cardinality({t \in Tasks : pc[t] = "step" /\ dev[t] = d}) <= 1

(***************************************************************************)
(* C8: a recovery in progress for one device does not keep the detection   *)
(* for another device from making progress: while the monitoring loop is   *)
(* inside execute_recovery with keys of other devices still to visit, it   *)
(* can take up the next key.                                               *)
(***************************************************************************)
OtherDevicesProgressDuringRecovery ==
    (pc["monitor"] \in RecoveryPcs /\ keys # <<>>)
        => ENABLED (\E snapshot \in FleetSnapshots : MonitorNextKey(snapshot))

(***************************************************************************)
(* C9: for every root cause and severity the generated plan contains a     *)
(* manual_intervention action exactly when the severity is CRITICAL or     *)
(* CATASTROPHIC, and then it is the last action and occurs once.           *)
(***************************************************************************)
ManualInterventionIffCritical ==
    fn_pc = "planned" =>
        /\ ("manual_intervention" \in PlanActions(fn_plan))
              <=> (fn_severity \in {CRITICAL, CATASTROPHIC})
        /\ \A k \in 1..Len(fn_plan) :
              fn_plan[k].action = "manual_intervention" => k = Len(fn_plan)

\* A cause-targeted plan for a CRITICAL incident ends in manual_intervention.
ManualInterventionWitness ==
    /\ fn_pc = "planned"
    /\ fn_severity = CRITICAL
    /\ Len(fn_plan) = 4
    /\ fn_plan[4].action = "manual_intervention"

(***************************************************************************)
(* C10: the final verification happens only after every action of the     *)
(* plan has been attempted: once an action has been attempted, the call    *)
(* reaches the final verification, and what follows it, only with every    *)
(* step of the plan attempted, whatever failed or raised on the way.       *)
(***************************************************************************)
VerificationAfterAllActions ==
    \A t \in Tasks :
        (pc[t] \in {"verify", "finalize"} /\ stepi[t] > 1) =>
            /\ stepi[t] = Len(incidents[cur[t]].recovery_plan) + 1
            /\ Len(loc[t].actions_taken)
                  >= Len(incidents[cur[t]].recovery_plan)

\* The final verification is reached after a plan of four steps in which
\* actions failed and raised.
VerificationAfterFailuresWitness ==
    /\ pc["caller"] = "verify"
    /\ Len(incidents[1].recovery_plan) = 4
    /\ {"Failed action", "Exception in step"}
          \subseteq loc["caller"].lessons_learned

(***************************************************************************)
(* C11: an error raised while a recovery action is executed is caught and  *)
(* converted into a failure outcome: every iteration of the step loop,     *)
(* whatever the action or its verification returned or raised, adds an    *)
(* outcome to actions_taken (two when the action returned and its          *)
(* verification raised) and leaves the task inside execute_recovery, at    *)
(* the next step or at the final verification; the outcome of a step that  *)
(* raised is the FAILED entry, with its lesson.                            *)
(***************************************************************************)
ActionErrorsBecomeOutcomes ==
    [][ \A t \in Tasks :
           (pc[t] = "step" /\ (pc[t]' # "step" \/ stepi[t]' # stepi[t])) =>
              /\ pc[t]' \in {"step", "verify"}
              /\ stepi[t]' = stepi[t] + 1
              /\ Len(loc[t].actions_taken') - Len(loc[t].actions_taken)
                    \in {1, 2}
              /\ loc[t].actions_taken'[Len(loc[t].actions_taken')]
                    \in {"status", "FAILED"}
              /\ loc[t].actions_taken'[Len(loc[t].actions_taken')] = "FAILED"
                    => "Exception in step" \in loc[t].lessons_learned' ]_vars

\* A step raised, the action of the next one failed, and the loop goes on.
ActionErrorWitness ==
    /\ pc["caller"] = "step"
    /\ stepi["caller"] = 3
    /\ loc["caller"].actions_taken = <<"FAILED", "status">>
    /\ "Failed action" \in loc["caller"].lessons_learned

(***************************************************************************)
(* C12: with max_attempts = 3, once verification has failed three times in *)
(* a row on a device's problem, an incident of the device is ESCALATED and *)
(* humans have been alerted exactly once about it.                         *)
(***************************************************************************)
\* The recoveries recorded for device d in which the manual intervention
\* alert was requested (lines 533-534, 586).
ManualAlerts(d) ==
    Cardinality({k \in 1..Len(results) :
                    /\ incidents[results[k].incident].device_id = d
                    /\ results[k].manual_intervention})

ThreeFailuresEscalateOnce ==
    \A d \in DeviceIds :
        FailedAttempts(d) >= max_attempts =>
            /\ \E i \in Incidents : /\ incidents[i].device_id = d
                                    /\ "ESCALATED" \in ActiveStates(i)
            /\ ManualAlerts(d) = 1

(***************************************************************************)
(* C13: a snapshot with battery_voltage = 3.1 V and nothing else wrong     *)
(* yields the low-battery symptom, severity MEDIUM and, for a root cause   *)
(* that names the battery, a plan that restarts the power service; the     *)
(* monitoring loop executes that plan before it goes on, and the incident  *)
(* is RESOLVED when the final verification has passed.                     *)
(***************************************************************************)
LowBatteryIncidentIsRecovered ==
    \A i \in Incidents :
        ( /\ incidents[i].symptoms = DetectSymptoms(SnapLowBattery)
          /\ incidents[i].recorded
          /\ "battery" \in incidents[i].root_cause ) =>
            /\ incidents[i].symptoms = <<"Low battery voltage">>
            /\ incidents[i].severity = MEDIUM
            /\ "restart_service" \in PlanActions(incidents[i].recovery_plan)
            /\ (pc["monitor"] = "loop" /\ cur["monitor"] = i) =>
                  /\ ResultsOf(i) # {}
                  /\ \A k \in ResultsOf(i) :
                        results[k].success => ActiveStates(i) = {"RESOLVED"}

(***************************************************************************)
(* C14: when a second symptom set of a device arrives while the work on    *)
(* the first is in flight, that work is cancelled and one incident goes on *)
(* with the union of the symptoms: no two incidents of one device are      *)
(* being worked on at once, and a device has a second incident only when   *)
(* no task is working on its first.                                        *)
(***************************************************************************)
SecondSymptomSetSupersedes ==
    \A i, j \in Incidents :
        (i < j /\ incidents[i].device_id = incidents[j].device_id) =>
            Holders(i) = {}

(***************************************************************************)
(* C15: once the share of the fleet's devices that opened incidents        *)
(* exceeds fleet_storm_threshold, no recovery action is executed for an    *)
(* incident opened after that.  The incidents of one behaviour of the      *)
(* model are taken to fall into one window.                                *)
(***************************************************************************)
\* The devices that had opened an incident before incident i was opened.
DevicesOpenedBefore(i) == {incidents[j].device_id : j \in 1..(i - 1)}

\* Whether the storm threshold was exceeded when incident i was opened.
StormBefore(i) ==
    100 * Cardinality(DevicesOpenedBefore(i))
        > fleet_storm_threshold * Len(fleet)

StormBreakerBlocksActions ==
    \A t \in Tasks :
        (pc[t] = "step" /\ cur[t] # 0) => ~StormBefore(cur[t])

(***************************************************************************)
(* C16: an incident that is CATASTROPHIC when it is detected is handed to  *)
(* humans directly: it is ESCALATED as soon as automation has taken it up, *)
(* and no step of its plan is executed.                                    *)
(***************************************************************************)
CatastrophicEscalatesDirectly ==
    \A t \in Tasks :
        ( /\ cur[t] # 0
          /\ pc[t] \in {"step", "verify", "finalize", "recovered"}
          /\ incidents[cur[t]].severity = CATASTROPHIC ) =>
            /\ ActiveStates(cur[t]) = {"ESCALATED"}
            /\ loc[t].actions_taken = <<>>

(***************************************************************************)
(* C17: every outcome of the final verification updates the pattern of the *)
(* plan just tried exactly once: when a recovery returns after a passed    *)
(* verification the success count of its signature grows by one and        *)
(* nothing else changes, after a failed one the failure count grows by     *)
(* one and nothing else changes; no other step changes a pattern.          *)
(***************************************************************************)
Returns(t) == pc[t] = "finalize" /\ pc[t]' = "recovered"

OutcomesOf(s) ==
    {k \in 1..Len(results) : Signature(incidents[results[k].incident]) = s}

SecondExecutionChangesNothing ==
    (fn_runs = 2 /\ fn_ok) => fn_k8s = fn_once

(***************************************************************************)
(* C20: a stuck external call cannot stall the control loop: when a call   *)
(* made for a recovery action never returns, the monitoring loop can still *)
(* take a step (give the call up and go on towards the end of the          *)
(* incident and its next sweep).                                           *)
(***************************************************************************)
MonitorAdvances == NextMonitor /\ pc["monitor"]' # pc["monitor"]

StuckCallCannotStall ==
    pc["monitor"] = "hung" => ENABLED MonitorAdvances

(***************************************************************************)
(* C21: an infrastructure failure (an internal error during the recovery)  *)
(* ends the incident in the outcome FAILED, and that outcome is not the    *)
(* one a remediation that ran without restoring health ends in: when the   *)
(* result of a recovery is built, an internal error has left FAILED and a  *)
(* final verification that did not pass has left something else.           *)
(***************************************************************************)
\* Lines 566-569: the outer handler has caught an exception.
InternalError(l) == "Recovery process exception" \in l.lessons_learned

\* Lines 562-564: the plan ran and the final verification returned False.
RemediationFailed(l) ==
    "Full recovery verification failed" \in l.lessons_learned

\* The outcome the RecoveryResult reports (line 582): its success flag, the
\* only field of the result that classifies the recovery.
RecoveryOutcome(l) == IF ResultSuccess(l) THEN "RESOLVED" ELSE "FAILED"

InfrastructureFailureIsDistinct ==
    \A t \in Tasks :
        pc[t] = "finalize" =>
            /\ InternalError(loc[t]) => RecoveryOutcome(loc[t]) = "FAILED"
            /\ RemediationFailed(loc[t]) => RecoveryOutcome(loc[t]) # "FAILED"

(***************************************************************************)
(* C22: when the analysis yields no cause (the request failed, so the root *)
(* cause is the fixed error text), the plan is the generic fallback: the   *)
(* diagnostic step followed by a manual-intervention step, and no          *)
(* cause-targeted action.                                                  *)
(***************************************************************************)
NoCauseGetsFallbackPlan ==
    (fn_pc = "planned" /\ fn_cause = AnalysisErrorCause) =>
        fn_plan = << PlanStep(1, "diagnostic_check"),
                     PlanStep(2, "manual_intervention") >>

(***************************************************************************)
(* _analyze_root_cause followed by _generate_recovery_plan, as             *)
(* detect_incident calls them (lines 228-231), for drawn snapshots and     *)
(* every outcome of the request to the language model.                     *)
(***************************************************************************)
\* Lines 371-384: the answer of the language model, or the fixed error text
\* when anything in the request raised.
AnalysisResult(outcome, answer) ==
    IF outcome = "raises" THEN AnalysisErrorCause ELSE answer

InitDiagnosis ==
    /\ SysIdle
    /\ fn_pc = "analyze"
    /\ fn_device \in DeviceIds
    /\ fn_data \in RecoverySnapshots
    /\ fn_symptoms = DetectSymptoms(fn_data)
    /\ fn_severity = AssessSeverity(fn_symptoms, fn_device)
    /\ fn_prev = NoPrev
    /\ fn_cause = {}
    /\ fn_plan = <<>>
    /\ K8sIdle
    /\ DepIdle

\* Line 228.
FnAnalyzeRootCause(outcome, answer) ==
    /\ fn_pc = "analyze"
    /\ fn_cause' = AnalysisResult(outcome, answer)
    /\ fn_pc' = "plan"
    /\ UNCHANGED <<fn_device, fn_data, fn_symptoms, fn_severity, fn_prev,
                   fn_plan>>
    /\ UNCHANGED k8svars
    /\ UNCHANGED depvars
    /\ UNCHANGED sysvars

NextDiagnosis ==
    \/ \E answer \in RootCauses : FnAnalyzeRootCause("answers", answer)
    \/ FnAnalyzeRootCause("raises", {})
    \/ FnGeneratePlan

SpecDiagnosis == InitDiagnosis /\ [][NextDiagnosis]_vars

(***************************************************************************)
(* C23: diagnosis always hands a result to planning and planning always    *)
(* yields a non-empty plan: whatever the analysis request does, raising    *)
(* included, a root cause is produced; the plan made from it has the       *)
(* diagnostic step as step 1 and its step numbers are 1, 2, 3, ...         *)
(***************************************************************************)
DiagnosisAlwaysYieldsPlan ==
    /\ fn_pc = "analyze" => ENABLED FnAnalyzeRootCause("raises", {})
    /\ fn_pc \in {"plan", "planned"} => fn_cause \in SUBSET CauseKeywords
    /\ fn_pc = "plan" => ENABLED FnGeneratePlan
    /\ fn_pc = "planned" =>
          /\ Len(fn_plan) >= 1
          /\ fn_plan[1] = PlanStep(1, "diagnostic_check")
          /\ \A k \in 1..Len(fn_plan) : fn_plan[k].step = k

\* The root cause is the error text of a failed request, and the plan made
\* from it for an incident below CRITICAL is the diagnostic step alone.
FailedAnalysisPlanWitness ==
    /\ fn_pc = "planned"
    /\ fn_symptoms # <<>>
    /\ fn_cause = AnalysisErrorCause
    /\ fn_severity < CRITICAL
    /\ fn_plan = <<PlanStep(1, "diagnostic_check")>>

(***************************************************************************)
(* C24: a per-step verification that fails hands the incident to the       *)
(* retry/escalate logic instead of going on with the next action: no       *)
(* action of a plan is about to be executed after the verification of an   *)
(* earlier step of the same call has failed.                               *)
(***************************************************************************)
FailedStepVerificationStopsPlan ==
    \A t \in Tasks :
        pc[t] = "step" =>
            "Verification failed for step" \notin loc[t].lessons_learned

(***************************************************************************)
(* C25: the planner consults the learned patterns before the rule table:   *)
(* when a plan is generated for an incident whose signature has a pattern  *)
(* with a success rate of at least pattern_confidence_floor, the plan      *)
(* comes from the pattern (source "pattern"); otherwise it comes from the  *)
(* rule table (source "rule").                                             *)
(***************************************************************************)
\* Whether the store p holds a pattern for the signature whose success rate
\* reaches the floor.
PatternIsTrusted(p, signature) ==
    /\ signature \in DOMAIN p
    /\ 100 * p[signature].success_count >=
          pattern_confidence_floor
             * (p[signature].success_count + p[signature].failure_count)

\* Where the plan of an incident comes from.  Lines 386-500: every step is
\* taken from the branches on root_cause and on severity;
\* self.recovery_patterns is not read.
PlanSource(incident) == "rule"

PlannerReusesTrustedPattern ==
    [][ \A t \in Tasks :
           (pc[t] = "diagnose" /\ pc[t]' = "record") =>
              PlanSource(incidents'[cur[t]]) =
                 IF PatternIsTrusted(patterns, Signature(incidents'[cur[t]]))
                 THEN "pattern" ELSE "rule" ]_vars

(***************************************************************************)
(* C26: blast-radius safety: an action on a service that another service   *)
(* depends on never runs while an action on that dependent runs: no two    *)
(* tasks are executing plan steps at once for devices whose services are   *)
(* joined by an edge of the dependency graph.                              *)
(***************************************************************************)
\* Line 604: f"device-{device_id.lower()}-service", the service the actions
\* of a recovery for the device act on.
ServiceName(device_id) ==
    CASE device_id = "ESP32-CRITICAL-001" ->
            "device-esp32-critical-001-service"
      [] device_id = "ESP32-LAB-002" -> "device-esp32-lab-002-service"
      [] device_id = "esp32-production-7" ->
            "device-esp32-production-7-service"
      [] OTHER -> "none"

\* self.dependency_graph (lines 166-167, 197-211): an edge <<a, b>> says
\* that a depends on b.  The edges of the source are examples between
\* platform services; the graph of the model is the one in which the
\* service of the lab device depends on the service of the critical device.
DependencyEdges ==
    { <<"device-esp32-lab-002-service",
        "device-esp32-critical-001-service">> }

Dependent(a, b) == <<a, b>> \in DependencyEdges \/ <<b, a>> \in DependencyEdges

SuccessIsFinalVerificationOnly ==
    [][ \A t \in Tasks :
           /\ pc[t]' \in {"recover", "step", "verify"} => ~loc[t].success'
           /\ pc[t]' = "finalize" =>
                 (loc[t].success' <=>
                     loc[t].lessons_learned' \cap
                        {"Full recovery verification failed",
                         "Recovery process exception"} = {})
           /\ Returns(t) =>
                 /\ Len(results') = Len(results) + 1
                 /\ results'[Len(results')].success = loc[t].success ]_vars

\* The final verification has passed after a plan of three steps in which
\* the first and the third action raised and the second failed.
SuccessAfterFailedActionsWitness ==
    /\ pc["caller"] = "finalize"
    /\ loc["caller"].success
    /\ Len(incidents[1].recovery_plan) = 3
    /\ loc["caller"].actions_taken = <<"FAILED", "status", "FAILED">>
    /\ "Failed action" \in loc["caller"].lessons_learned

(***************************************************************************)
(* The monitoring loop running alone over one device whose snapshots cover *)
(* every severity.                                                         *)
(***************************************************************************)
\* error_count above its threshold and nothing else: severity LOW.
SnapErrors == [SnapHealthy EXCEPT !.error_count = Num(15)]

\* Low battery, overheated, out of memory and rebooting: severity CRITICAL
\* for a device whose identifier names neither "critical" nor "production".
SnapCritical == [SnapHotLowBattery EXCEPT !.uptime_hours = Num(5)]

SeveritySnapshots ==
    {SnapHealthy, SnapErrors, SnapLowBattery, SnapOverheat, SnapCritical,
     SnapMain}

InitSweep ==
    /\ incidents = <<>>
    /\ results = <<>>
    /\ pc = [t \in Tasks |-> "idle"]
    /\ dev = [t \in Tasks |-> "none"]
    /\ data = [t \in Tasks |-> SnapHealthy]
    /\ cur = [t \in Tasks |-> 0]
    /\ stepi = [t \in Tasks |-> 0]
    /\ loc = [t \in Tasks |-> InitLocals]
    /\ fleet = <<"ESP32-LAB-002">>
    /\ keys = <<>>
    /\ called = FALSE
    /\ quota = MaxSweepIncidents
    /\ patterns = NoPatterns
    /\ post = [t \in Tasks |-> <<>>]
    /\ FnIdle

NextSweep ==
    \/ DetectIncident("monitor")
    \/ \E c \in FleetCauses : AnalyzeRootCause("monitor", c)
    \/ RecordIncident("monitor")
    \/ \E impact \in {"low_risk", "raises"} : StartRecovery("monitor", impact)
    \/ \E result \in {"success", "failure"} :
          ExecuteStep("monitor", result, "pass")
    \/ \E verified \in {"pass", "fail", "raises"} :
          VerifyFullRecovery("monitor", verified)
    \/ RecordRecoveryResult("monitor")
    \/ MonitorSweep
    \/ \E snapshot \in SeveritySnapshots : MonitorNextKey(snapshot)
    \/ MonitorAfterDetect
    \/ MonitorAfterRecovery

SpecSweep == InitSweep /\ [][NextSweep]_vars

(***************************************************************************)
(* C28: the monitoring loop executes the recovery of a detected incident   *)
(* if and only if its severity is HIGH or above: when detect_incident has  *)
(* returned an incident, which is recorded by then, the loop calls         *)
(* execute_recovery exactly when the severity is at least HIGH and goes on *)
(* with the next key otherwise; the loop is never inside execute_recovery  *)
(* for a LOW or MEDIUM incident and no result is ever recorded for one.    *)
(***************************************************************************)
MonitorRecoversFromHighOnly ==
    [][ /\ ( /\ pc["monitor"] = "detected"
             /\ cur["monitor"] # 0
             /\ pc["monitor"]' # "detected" ) =>
              /\ incidents[cur["monitor"]].recorded
              /\ pc["monitor"]' \in {"recover", "loop"}
              /\ pc["monitor"]' = "recover"
                    <=> incidents[cur["monitor"]].severity >= HIGH
        /\ pc["monitor"]' \in RecoveryPcs =>
              incidents'[cur["monitor"]'].severity >= HIGH
        /\ \A k \in 1..Len(results') :
              incidents'[results'[k].incident].severity >= HIGH ]_vars

\* A LOW incident was detected and recorded and the loop went on without a
\* recovery for it; the recovery of a CATASTROPHIC one has returned.
SkippedLowRecoveredCatastrophicWitness ==
    /\ Len(incidents) = 2
    /\ incidents[1].severity = LOW
    /\ incidents[1].recorded
    /\ ResultsOf(1) = {}
    /\ incidents[2].severity = CATASTROPHIC
    /\ ResultsOf(2) # {}
    /\ pc["monitor"] = "loop"

(***************************************************************************)
(* One call of execute_recovery in which the helpers awaited after the     *)
(* final verification are steps of their own, each of which may raise; an  *)
(* exception raised there is caught nowhere in execute_recovery, so the    *)
(* call raises instead of returning.                                       *)
(***************************************************************************)
\* A call that does not notify when the recovery failed.
PostPcAfterQuietOnFailure(call, success) ==
    CASE call = "record" -> "learn"
      [] call = "learn" -> IF success THEN "notify" ELSE "recovered"
      [] OTHER -> "recovered"

\* Where the call goes on after a helper has returned (lines 592-598).
PostPcAfter(call, success) ==
    CASE call = "record" -> "learn"
      [] call = "learn" -> "notify"
      [] OTHER -> "recovered"

\* Lines 571-592: the confidence and the follow-up actions are computed, the
\* RecoveryResult is built and _record_recovery_result is awaited.
PostRecord(t, outcome) ==
    /\ pc[t] = "finalize"
    /\ IF outcome = "raises"
       THEN /\ pc' = [pc EXCEPT ![t] = "raised"]
            /\ UNCHANGED <<results, post>>
       ELSE /\ results' = Append(results,
                  [ incident            |-> cur[t],
                    success             |-> ResultSuccess(loc[t]),
                    manual_intervention |-> loc[t].manual_intervention ])
            /\ post' = [post EXCEPT ![t] = Append(@, "record")]
            /\ pc' = [pc EXCEPT ![t] =
                  PostPcAfter("record", ResultSuccess(loc[t]))]
    /\ UNCHANGED <<incidents, dev, data, cur, stepi, loc, fleet, patterns,
                   keys, called, quota>>
    /\ UNCHANGED fnvars

\* Line 593: _learn_from_recovery is awaited.
PostLearn(t, outcome) ==
    /\ pc[t] = "learn"
    /\ IF outcome = "raises"
       THEN /\ pc' = [pc EXCEPT ![t] = "raised"]
            /\ UNCHANGED <<patterns, post>>
       ELSE /\ patterns' = LearnFromRecovery(patterns,
                  Signature(incidents[cur[t]]), ResultSuccess(loc[t]))
            /\ post' = [post EXCEPT ![t] = Append(@, "learn")]
            /\ pc' = [pc EXCEPT ![t] =
                  PostPcAfter("learn", ResultSuccess(loc[t]))]
    /\ UNCHANGED <<incidents, results, dev, data, cur, stepi, loc, fleet,
                   keys, called, quota>>
    /\ UNCHANGED fnvars

\* Lines 596-598: _send_recovery_notification is awaited and the result is
\* returned.
PostNotify(t, outcome) ==
    /\ pc[t] = "notify"
    /\ IF outcome = "raises"
       THEN /\ pc' = [pc EXCEPT ![t] = "raised"]
            /\ UNCHANGED <<post, loc, stepi>>
       ELSE /\ post' = [post EXCEPT ![t] = Append(@, "notify")]
            /\ pc' = [pc EXCEPT ![t] =
                  PostPcAfter("notify", ResultSuccess(loc[t]))]
            /\ loc' = [loc EXCEPT ![t] = InitLocals]
            /\ stepi' = [stepi EXCEPT ![t] = 0]
    /\ UNCHANGED <<incidents, results, dev, data, cur, fleet, patterns, keys,
                   called, quota>>
    /\ UNCHANGED fnvars

NextFinalize ==
    \/ \E impact \in {"low_risk", "high_risk", "raises"} :
          StartRecovery("caller", impact)
    \/ \E result \in {"success", "failure", "raises"} :
          ExecuteStep("caller", result, "pass")
    \/ \E verified \in {"pass", "fail", "raises"} :
          VerifyFullRecovery("caller", verified)
    \/ \E outcome \in {"returns", "raises"} : PostRecord("caller", outcome)
    \/ \E outcome \in {"returns", "raises"} : PostLearn("caller", outcome)
    \/ \E outcome \in {"returns", "raises"} : PostNotify("caller", outcome)

SpecFinalize == InitRecovery /\ [][NextFinalize]_vars

(***************************************************************************)
(* C29: every call of execute_recovery that returns has, after its actions *)
(* and the final verification, recorded the result, learned from the       *)
(* recovery and sent the notification, each exactly once and in this       *)
(* order, whether the recovery succeeded or failed: none of the three is   *)
(* awaited before the final verification is over, the result list grows    *)
(* by one entry exactly when the result is recorded, the patterns change   *)
(* exactly when the recovery is learned from, and a call returns only      *)
(* with the three behind it.                                               *)
(***************************************************************************)
PostProcessingOnceInOrder ==
    [][ \A t \in Tasks :
           /\ pc[t]' \in {"recover", "step", "verify", "finalize"} =>
                 post[t]' = <<>>
           /\ (pc[t] # "recovered" /\ pc[t]' = "recovered") =>
                 post[t]' = <<"record", "learn", "notify">>
           /\ results' # results <=>
                 \E u \in Tasks : post[u]' = Append(post[u], "record")
           /\ patterns' # patterns <=>
                 \E u \in Tasks : post[u]' = Append(post[u], "learn") ]_vars

\* A call whose final verification failed has returned, with the result
\* recorded, the failure counted and the notification sent.
FailedRecoveryPostProcessedWitness ==
    /\ pc["caller"] = "recovered"
    /\ post["caller"] = <<"record", "learn", "notify">>
    /\ Len(results) = 1
    /\ ~results[1].success
    /\ Counts(patterns, Signature(incidents[1])).failure_count = 1

(***************************************************************************)
(* GlobalDeploymentOrchestrator: trigger_global_deployment and             *)
(* _execute_global_deployment                                              *)
(* (src/docs/enterprise/global-deployment-automation.py, lines 499-621).   *)
(* A job is an asyncio task; its actions end where it awaits something.    *)
(* Every awaited helper either returns or raises.                          *)
(***************************************************************************)
InitDeployment ==
    /\ SysIdle
    /\ fn_pc = "off"
    /\ fn_device = "ESP32-LAB-002"
    /\ fn_data = SnapHealthy
    /\ fn_symptoms = <<>>
    /\ fn_severity = LOW
    /\ fn_prev = NoPrev
    /\ fn_cause = {}
    /\ fn_plan = <<>>
    /\ K8sIdle
    /\ deployment_pipelines \in
          [known : BOOLEAN, stages : 1..MaxStages, auto_rollback : BOOLEAN]
    /\ jobs = [j \in Jobs |-> NoJob]
    /\ active_deployments = {}
    /\ deployment_history = <<>>

\* The orchestrator does not touch the recovery system.
RecoverySystemUnchanged ==
    /\ UNCHANGED sysvars
    /\ UNCHANGED <<fn_pc, fn_device, fn_data, fn_symptoms, fn_severity,
                   fn_prev, fn_cause, fn_plan, k8svars>>

\* Lines 504-531: the job is created with status "queued", put into
\* active_deployments and its execution is scheduled as a task.
TriggerGlobalDeployment(j) ==
    /\ jobs[j].pc = "none"
    /\ jobs' = [jobs EXCEPT ![j] =
          [status |-> "queued", stage |-> 0, pc |-> "scheduled"]]
    /\ active_deployments' = active_deployments \cup {j}
    /\ UNCHANGED <<deployment_pipelines, deployment_history>>
    /\ RecoverySystemUnchanged

\* Lines 547-554: the task starts.  The pipeline is looked up before the try
\* statement: when the job names a pipeline that is not registered the
\* KeyError ends the task there.  Otherwise the status becomes "running"
\* and the first stage is awaited.
StartExecution(j) ==
    /\ jobs[j].pc = "scheduled"
    /\ jobs' = [jobs EXCEPT ![j] =
          IF deployment_pipelines.known
          THEN [status |-> "running", stage |-> 1, pc |-> "stage"]
          ELSE [@ EXCEPT !.pc = "raised"]]
    /\ UNCHANGED <<deployment_pipelines, active_deployments,
                   deployment_history>>
    /\ RecoverySystemUnchanged

\* Lines 613-621, the finally clause: the job is appended to the history and
\* removed from the active deployments.
Finally(j) ==
    /\ deployment_history' = Append(deployment_history, j)
    /\ active_deployments' = active_deployments \ {j}

\* Lines 597-603: the handler of an exception raised inside the try
\* statement, up to the failure notification it awaits.
Failed(job) == [job EXCEPT !.status = "failed", !.pc = "notify_failed"]

\* Lines 556-588: the stage returns and the loop goes on with the next
\* stage or, after the last one, sets the status to "success" and awaits
\* the success notification; or the stage, or the approval it waits for,
\* raises.
RunStage(j, outcome) ==
    /\ jobs[j].pc = "stage"
    /\ jobs' = [jobs EXCEPT ![j] =
          IF outcome = "raises" THEN Failed(@)
          ELSE IF @.stage < deployment_pipelines.stages
          THEN [@ EXCEPT !.stage = @ + 1]
          ELSE [@ EXCEPT !.status = "success", !.pc = "notify_success"]]
    /\ UNCHANGED <<deployment_pipelines, active_deployments,
                   deployment_history>>
    /\ RecoverySystemUnchanged

\* Lines 588-595: the success notification returns and the monitoring setup
\* is awaited, or the notification raises inside the try statement.
NotifySuccess(j, outcome) ==
    /\ jobs[j].pc = "notify_success"
    /\ jobs' = [jobs EXCEPT ![j] =
          IF outcome = "raises" THEN Failed(@)
          ELSE [@ EXCEPT !.pc = "monitoring"]]
    /\ UNCHANGED <<deployment_pipelines, active_deployments,
                   deployment_history>>
    /\ RecoverySystemUnchanged

\* Lines 595, 764-782: _setup_post_deployment_monitoring returns and the
\* finally clause runs, or one of the set-up calls raises inside the try
\* statement.
SetupMonitoring(j, outcome) ==
    /\ jobs[j].pc = "monitoring"
    /\ IF outcome = "raises"
       THEN /\ jobs' = [jobs EXCEPT ![j] = Failed(@)]
            /\ UNCHANGED <<active_deployments, deployment_history>>
       ELSE /\ jobs' = [jobs EXCEPT ![j].pc = "done"]
            /\ Finally(j)
    /\ UNCHANGED deployment_pipelines
    /\ RecoverySystemUnchanged

\* Lines 605-621: the failure notification returns and the automatic
\* rollback, if configured, is awaited; without it, or when the
\* notification raises, the finally clause runs.
NotifyFailure(j, outcome) ==
    /\ jobs[j].pc = "notify_failed"
    /\ IF outcome = "returns" /\ deployment_pipelines.auto_rollback
       THEN /\ jobs' = [jobs EXCEPT ![j].pc = "rollback"]
            /\ UNCHANGED <<active_deployments, deployment_history>>
       ELSE /\ jobs' = [jobs EXCEPT ![j].pc = "done"]
            /\ Finally(j)
    /\ UNCHANGED deployment_pipelines
    /\ RecoverySystemUnchanged

\* Lines 611-621: the rollback returns or raises; the finally clause runs.
AutomaticRollback(j) ==
    /\ jobs[j].pc = "rollback"
    /\ jobs' = [jobs EXCEPT ![j].pc = "done"]
    /\ Finally(j)
    /\ UNCHANGED deployment_pipelines
    /\ RecoverySystemUnchanged

NextDeployment ==
    \/ \E j \in Jobs : TriggerGlobalDeployment(j)
    \/ \E j \in Jobs : StartExecution(j)
    \/ \E j \in Jobs : \E outcome \in {"returns", "raises"} :
          RunStage(j, outcome)
    \/ \E j \in Jobs : \E outcome \in {"returns", "raises"} :
          NotifySuccess(j, outcome)
    \/ \E j \in Jobs : \E outcome \in {"returns", "raises"} :
          SetupMonitoring(j, outcome)
    \/ \E j \in Jobs : \E outcome \in {"returns", "raises"} :
          NotifyFailure(j, outcome)
    \/ \E j \in Jobs : AutomaticRollback(j)

SpecDeployment == InitDeployment /\ [][NextDeployment]_vars

(***************************************************************************)
(* C30: the status of a deployment job only moves queued -> running ->     *)
(* success or failed: a status that is success never changes, and in      *)
(* particular never becomes failed; when the job finishes it is appended   *)
(* to deployment_history, which then holds it exactly once, and it is no   *)
(* longer in active_deployments.                                           *)
(***************************************************************************)
\* How often job j occurs in the history h.
TimesInHistory(h, j) == Cardinality({k \in 1..Len(h) : h[k] = j})

JobStatusOnlyMovesForward ==
    [][ \A j \in Jobs :
           /\ jobs[j].status' # jobs[j].status =>
                 <<jobs[j].status, jobs[j].status'>> \in
                    { <<"none", "queued">>, <<"queued", "running">>,
                      <<"running", "success">>, <<"running", "failed">> }
           /\ jobs[j].status = "success" => jobs[j].status' = "success"
           /\ (jobs[j].pc # "done" /\ jobs[j].pc' = "done") =>
                 /\ deployment_history' = Append(deployment_history, j)
                 /\ TimesInHistory(deployment_history', j) = 1
                 /\ j \notin active_deployments' ]_vars

====
